---- MODULE Spec2Model ----
(***************************************************************************)
(* Model of the CEL evaluator of cel-rust (interpreter/src/objects.rs,     *)
(* interpreter/src/functions.rs): the value domain CelType, its derived    *)
(* equality and ordering, truthiness, and the recursive reduction          *)
(* CelType::resolve / CelType::member over a parsed expression, run        *)
(* against a Context of variables and functions.                           *)
(*                                                                         *)
(* A Rust panic (unwrap on None, unimplemented!, unreachable!) ends the    *)
(* evaluation; it is modelled as the outcome tag "Panic" carrying the      *)
(* panic site.  The variable calls is the log of callable invocations made *)
(* by one evaluation, in order.                                            *)
(***************************************************************************)
EXTENDS Integers, Sequences, FiniteSets, TLC

VARIABLES variables, functions, expr, result, calls

vars == <<variables, functions, expr, result, calls>>

\* ------------------------------------------------------------------ bounds

\* Integer literals of the generated expressions range over -1 .. MaxInt.
MaxInt == 1

\* Longest list literal and most pairs of a map literal generated.
MaxLen == 2

\* ------------------------------------------------------------ value domain

\* enum CelType: one record per variant, k the variant, v the payload.
\* String and Bytes payloads are sequences of byte values; a Decimal payload
\* is the number in tenths (rust_decimal compares numerically, 1.0 = 1.00).
Integer(i) == [k |-> "Integer", v |-> i]
Decimal(d) == [k |-> "Decimal", v |-> d]
String(s) == [k |-> "String", v |-> s]
Bytes(b) == [k |-> "Bytes", v |-> b]
Bool(b) == [k |-> "Bool", v |-> b]
Null == [k |-> "Null", v |-> 0]
List(xs) == [k |-> "List", v |-> xs]
Map(m) == [k |-> "Map", v |-> m]
\* Function(name, target): target is <<>> for None and <<t>> for Some(t).
Function(name, target) == [k |-> "Function", v |-> name, target |-> target]

None == <<>>
Some(x) == <<x>>

\* Decimal::from(i64), in tenths.
DecimalFrom(i) == i * 10

\* Position of each variant in the declaration of enum CelType; the derived
\* PartialOrd orders values of different variants by it.
Discriminant(x) ==
    CASE x.k = "List" -> 0
      [] x.k = "Map" -> 1
      [] x.k = "Function" -> 2
      [] x.k = "Integer" -> 3
      [] x.k = "Decimal" -> 4
      [] x.k = "String" -> 5
      [] x.k = "Bytes" -> 6
      [] x.k = "Bool" -> 7
      [] x.k = "Null" -> 8

\* #[derive(PartialEq)] on CelType: equal variants and equal payloads.
\* CelMap derives PartialEq over its HashMap: same keys, equal value per key.
CelTypeEq(a, b) == a.k = b.k /\ a = b

\* Ordering of two integers (i64::cmp, Decimal::cmp, u8::cmp).
IntCmp(a, b) == IF a < b THEN "Less" ELSE IF a > b THEN "Greater" ELSE "Equal"

\* Lexicographic comparison of two byte sequences (str and [u8] ordering).
RECURSIVE SeqCmp(_, _)
SeqCmp(s, t) ==
    IF s = <<>> THEN (IF t = <<>> THEN "Equal" ELSE "Less")
    ELSE IF t = <<>> THEN "Greater"
    ELSE IF Head(s) # Head(t) THEN IntCmp(Head(s), Head(t))
    ELSE SeqCmp(Tail(s), Tail(t))

\* Ordering of two function names (String::cmp), over the names the model
\* registers.
NameRank(n) ==
    CASE n = "TestFunction" -> 0
      [] n = "a" -> 1
      [] n = "size" -> 2

NameCmp(a, b) == IntCmp(NameRank(a), NameRank(b))

\* impl PartialOrd for CelMap: partial_cmp is always None.
CelMapPartialCmp(a, b) == "None"

\* #[derive(PartialOrd)] on CelType: different variants order by their
\* position in the enum; equal variants by their payloads.
RECURSIVE partial_cmp(_, _)
RECURSIVE ListCmp(_, _)
ListCmp(s, t) ==
    IF s = <<>> THEN (IF t = <<>> THEN "Equal" ELSE "Less")
    ELSE IF t = <<>> THEN "Greater"
    ELSE LET c == partial_cmp(Head(s), Head(t))
         IN IF c # "Equal" THEN c ELSE ListCmp(Tail(s), Tail(t))

OptionCmp(s, t) ==
    IF s = None THEN (IF t = None THEN "Equal" ELSE "Less")
    ELSE IF t = None THEN "Greater"
    ELSE partial_cmp(s[1], t[1])

partial_cmp(a, b) ==
    IF a.k # b.k THEN IntCmp(Discriminant(a), Discriminant(b))
    ELSE CASE a.k = "List" -> ListCmp(a.v, b.v)
           [] a.k = "Map" -> CelMapPartialCmp(a.v, b.v)
           [] a.k = "Function" ->
                LET c == NameCmp(a.v, b.v)
                IN IF c # "Equal" THEN c ELSE OptionCmp(a.target, b.target)
           [] a.k = "Integer" -> IntCmp(a.v, b.v)
           [] a.k = "Decimal" -> IntCmp(a.v, b.v)
           [] a.k = "String" -> SeqCmp(a.v, b.v)
           [] a.k = "Bytes" -> SeqCmp(a.v, b.v)
           [] a.k = "Bool" -> IntCmp(IF a.v THEN 1 ELSE 0, IF b.v THEN 1 ELSE 0)
           [] a.k = "Null" -> "Equal"

\* The comparison operators the Relation arm applies (PartialOrd's lt, le,
\* gt, ge over partial_cmp; PartialEq's eq and ne).
Lt(a, b) == partial_cmp(a, b) = "Less"
Le(a, b) == partial_cmp(a, b) \in {"Less", "Equal"}
Gt(a, b) == partial_cmp(a, b) = "Greater"
Ge(a, b) == partial_cmp(a, b) \in {"Greater", "Equal"}

\* CelType::to_bool
to_bool(x) ==
    CASE x.k \in {"List", "String", "Bytes"} -> x.v # <<>>
      [] x.k = "Map" -> DOMAIN x.v # {}
      [] x.k \in {"Integer", "Decimal"} -> x.v # 0
      [] x.k = "Bool" -> x.v
      [] x.k = "Null" -> FALSE
      [] x.k = "Function" -> FALSE

\* ------------------------------------------------------------- expressions

\* cel_parser::Expression, Member and Atom as the evaluator consumes them.
Atom(v) == [t |-> "Atom", a |-> v]
Ident(n) == [t |-> "Ident", name |-> n]
Arithmetic(l, o, r) == [t |-> "Arithmetic", l |-> l, op |-> o, r |-> r]
Relation(l, o, r) == [t |-> "Relation", l |-> l, op |-> o, r |-> r]
Ternary(c, l, r) == [t |-> "Ternary", c |-> c, l |-> l, r |-> r]
Or(l, r) == [t |-> "Or", l |-> l, r |-> r]
And(l, r) == [t |-> "And", l |-> l, r |-> r]
Unary(o, e) == [t |-> "Unary", op |-> o, e |-> e]
Member(l, m) == [t |-> "Member", l |-> l, m |-> m]
ListExpr(items) == [t |-> "List", items |-> items]
MapExpr(pairs) == [t |-> "Map", pairs |-> pairs]

Index(e) == [m |-> "Index", e |-> e]
Fields == [m |-> "Fields"]
Attribute(n) == [m |-> "Attribute", name |-> n]
FunctionCall(args) == [m |-> "FunctionCall", args |-> args]

\* ---------------------------------------------------------------- outcomes

\* What one evaluation produces: the value returned, or the panic that ended
\* it, together with the callable invocations made so far.
Ok(v, c) == [tag |-> "Ok", val |-> v, calls |-> c]
Panic(msg, c) == [tag |-> "Panic", val |-> msg, calls |-> c]

\* o, evaluated after first: the invocations of first come before those of o.
After(first, o) == [o EXCEPT !.calls = first.calls \o @]

\* One record of the invocation log: the callable invoked, the receiver it
\* was passed and the argument expressions it was passed, unevaluated.
Invocation(f, target, args) == [fn |-> f, target |-> target, args |-> args]

\* ---------------------------------------------------------------- functions

\* functions::size
size(target, args, ctx) ==
    IF target = None THEN Panic("size: unwrap on None", <<>>)
    ELSE LET x == target[1]
         IN CASE x.k \in {"List", "String", "Bytes"} -> Ok(Integer(Len(x.v)), <<>>)
              [] x.k = "Map" -> Ok(Integer(Cardinality(DOMAIN x.v)), <<>>)
              [] OTHER -> Panic("size: unreachable", <<>>)

\* "Hello", the prefix the benchmark's TestFunction formats.
Hello == <<72, 101, 108, 108, 111>>

\* The host callable the benchmark registers as TestFunction.
TestFunction(target, args, ctx) ==
    IF target # None /\ target[1].k = "String"
    THEN Ok(String(Hello \o target[1].v), <<>>)
    ELSE Panic("TestFunction: unreachable", <<>>)

\* func(target, args, ctx) for a registered callable: the invocation is
\* logged, and a callable that panics ends the evaluation.
Invoke(f, target, args, ctx) ==
    After(Ok(Null, <<Invocation(f, target, args)>>),
          CASE f = "size" -> size(target, args, ctx)
            [] f = "TestFunction" -> TestFunction(target, args, ctx))

\* ------------------------------------------------------------------ context

\* Context as the evaluator reads it: ctx.variables and ctx.functions.
Context(vs, fs) == [variables |-> vs, functions |-> fs]

\* HashMap::contains_key
contains_key(m, key) == key \in DOMAIN m

\* HashMap::insert: a later value for a key replaces the earlier one.
insert_keep_first(m, key, value) ==
    [x \in DOMAIN m \cup {key} |-> IF x \in DOMAIN m THEN m[x] ELSE value]

insert(m, key, value) ==
    [x \in DOMAIN m \cup {key} |-> IF x = key THEN value ELSE m[x]]

\* impl TryInto<CelKey> for CelType. A CelKey is written as the value record
\* of the same variant; every other variant hits unimplemented!().
try_into(x) ==
    IF x.k \in {"Integer", "String", "Bool"} THEN Ok(x, <<>>)
    ELSE Panic("try_into: not implemented", <<>>)

\* str::contains: l occurs in r as a contiguous run.
str_contains(r, l) ==
    \E i \in 0 .. (Len(r) - Len(l)) : SubSeq(r, i + 1, i + Len(l)) = l

\* slice::contains, by CelType's PartialEq.
list_contains(xs, x) == \E i \in 1 .. Len(xs) : CelTypeEq(xs[i], x)

\* `idx as usize` for an i64: a negative index wraps to 2^64 + idx, far above
\* any length; 2^30 stands for 2^64 here (TLC integers are 32 bits wide).
as_usize(i) == IF i >= 0 THEN i ELSE 2^30 + i

\* slice::get
get(items, i) == IF i < Len(items) THEN Some(items[i + 1]) ELSE None

\* ---------------------------------------------------------------- evaluator

RECURSIVE resolve(_, _)

\* impl ops::Add<CelType> for CelType
add(l, r) ==
    CASE l.k = "Integer" /\ r.k = "Integer" -> Ok(Integer(l.v + r.v), <<>>)
      [] l.k = "Decimal" /\ r.k = "Decimal" -> Ok(Decimal(l.v + r.v), <<>>)
      [] l.k = "Integer" /\ r.k = "Decimal" -> Ok(Decimal(DecimalFrom(l.v) + r.v), <<>>)
      [] l.k = "Decimal" /\ r.k = "Integer" -> Ok(Decimal(l.v + DecimalFrom(r.v)), <<>>)
      [] l.k = "List" /\ r.k = "List" -> Ok(List(l.v \o r.v), <<>>)
      [] l.k = "String" /\ r.k = "String" -> Ok(String(l.v \o r.v), <<>>)
      [] OTHER -> Panic("add: not implemented", <<>>)

\* impl ops::Sub<CelType> for CelType
sub(l, r) ==
    CASE l.k = "Integer" /\ r.k = "Integer" -> Ok(Integer(l.v - r.v), <<>>)
      [] l.k = "Decimal" /\ r.k = "Decimal" -> Ok(Decimal(l.v - r.v), <<>>)
      [] l.k = "Integer" /\ r.k = "Decimal" -> Ok(Decimal(DecimalFrom(l.v) - r.v), <<>>)
      [] l.k = "Decimal" /\ r.k = "Integer" -> Ok(Decimal(l.v - DecimalFrom(r.v)), <<>>)
      [] OTHER -> Panic("sub: not implemented", <<>>)

\* Expression::Arithmetic (the generated expressions use Add and Subtract).
ResolveArithmetic(e, ctx) ==
    LET left == resolve(e.l, ctx)
    IN IF left.tag = "Panic" THEN left
       ELSE LET right == After(left, resolve(e.r, ctx))
            IN IF right.tag = "Panic" THEN right
               ELSE After(right, CASE e.op = "Add" -> add(left.val, right.val)
                                   [] e.op = "Subtract" -> sub(left.val, right.val))

\* RelationOp::In
RelationIn(left, right) ==
    CASE left.k = "String" /\ right.k = "String" ->
             Ok(Bool(str_contains(right.v, left.v)), <<>>)
      [] right.k = "List" -> Ok(Bool(list_contains(right.v, left)), <<>>)
      [] right.k = "Map" ->
             LET key == try_into(left)
             IN IF key.tag = "Panic" THEN key
                ELSE Ok(Bool(contains_key(right.v, key.val)), <<>>)
      [] OTHER -> Panic("in: not implemented", <<>>)

\* The match on the RelationOp, applied to the two resolved operands.
RelationRes(op, left, right) ==
    CASE op = "LessThan" -> Ok(Bool(Lt(left, right)), <<>>)
      [] op = "LessThanEq" -> Ok(Bool(Le(left, right)), <<>>)
      [] op = "GreaterThan" -> Ok(Bool(Gt(left, right)), <<>>)
      [] op = "GreaterThanEq" -> Ok(Bool(Ge(left, right)), <<>>)
      [] op = "Equals" -> Ok(Bool(CelTypeEq(right, left)), <<>>)
      [] op = "NotEquals" -> Ok(Bool(~CelTypeEq(right, left)), <<>>)
      [] op = "In" -> RelationIn(left, right)

\* Expression::Relation
ResolveRelation(e, ctx) ==
    LET left == resolve(e.l, ctx)
    IN IF left.tag = "Panic" THEN left
       ELSE LET right == After(left, resolve(e.r, ctx))
            IN IF right.tag = "Panic" THEN right
               ELSE After(right, RelationRes(e.op, left.val, right.val))

\* Expression::Ternary
ResolveTernaryBoth(e, ctx) ==
    LET cond == resolve(e.c, ctx)
    IN IF cond.tag = "Panic" THEN cond
       ELSE LET left == After(cond, resolve(e.l, ctx))
            IN IF left.tag = "Panic" THEN left
               ELSE LET right == After(left, resolve(e.r, ctx))
                    IN IF right.tag = "Panic" THEN right
                       ELSE IF to_bool(cond.val) THEN Ok(left.val, right.calls)
                       ELSE right

ResolveTernary(e, ctx) ==
    LET cond == resolve(e.c, ctx)
    IN IF cond.tag = "Panic" THEN cond
       ELSE IF to_bool(cond.val) THEN After(cond, resolve(e.l, ctx))
       ELSE After(cond, resolve(e.r, ctx))

\* Expression::Or
ResolveOrBool(e, ctx) ==
    LET left == resolve(e.l, ctx)
    IN IF left.tag = "Panic" THEN left
       ELSE IF to_bool(left.val) THEN Ok(Bool(TRUE), left.calls)
       ELSE After(left, resolve(e.r, ctx))

ResolveOr(e, ctx) ==
    LET left == resolve(e.l, ctx)
    IN IF left.tag = "Panic" THEN left
       ELSE IF to_bool(left.val) THEN left
       ELSE After(left, resolve(e.r, ctx))

\* Expression::And
ResolveAndShortCircuit(e, ctx) ==
    LET left == resolve(e.l, ctx)
    IN IF left.tag = "Panic" THEN left
       ELSE IF ~to_bool(left.val) THEN Ok(Bool(FALSE), left.calls)
       ELSE LET right == After(left, resolve(e.r, ctx))
            IN IF right.tag = "Panic" THEN right
               ELSE Ok(Bool(to_bool(right.val)), right.calls)

ResolveAnd(e, ctx) ==
    LET left == resolve(e.l, ctx)
    IN IF left.tag = "Panic" THEN left
       ELSE LET right == After(left, resolve(e.r, ctx))
            IN IF right.tag = "Panic" THEN right
               ELSE Ok(Bool(to_bool(left.val) /\ to_bool(right.val)), right.calls)

\* Expression::Unary
ResolveUnary(e, ctx) ==
    LET x == resolve(e.e, ctx)
    IN IF x.tag = "Panic" THEN x
       ELSE CASE e.op = "Not" -> Ok(Bool(~to_bool(x.val)), x.calls)
              [] e.op = "DoubleNot" -> Ok(Bool(to_bool(x.val)), x.calls)
              [] e.op = "Minus" ->
                     IF x.val.k \in {"Integer", "Decimal"}
                     THEN Ok([x.val EXCEPT !.v = -@], x.calls)
                     ELSE Panic("minus: not implemented", x.calls)
              [] e.op = "DoubleMinus" ->
                     IF x.val.k \in {"Integer", "Decimal"} THEN x
                     ELSE Panic("double minus: not implemented", x.calls)

\* items.iter().map(|i| CelType::resolve(i, ctx)).collect(): the items are
\* resolved left to right; val is the sequence of their values.
RECURSIVE ResolveItems(_, _)
ResolveItems(items, ctx) ==
    IF items = <<>> THEN Ok(<<>>, <<>>)
    ELSE LET first == resolve(Head(items), ctx)
         IN IF first.tag = "Panic" THEN first
            ELSE LET rest == After(first, ResolveItems(Tail(items), ctx))
                 IN IF rest.tag = "Panic" THEN rest
                    ELSE Ok(<<first.val>> \o rest.val, rest.calls)

\* Expression::List
ResolveList(e, ctx) ==
    LET items == ResolveItems(e.items, ctx)
    IN IF items.tag = "Panic" THEN items ELSE Ok(List(items.val), items.calls)

\* The closure of the Map arm, pair by pair, collected into a HashMap: each
\* pair's key is resolved and converted, then its value is resolved, and the
\* pair is inserted into the map built from the pairs before it.
RECURSIVE ResolvePairs(_, _, _)
ResolvePairs(pairs, map, ctx) ==
    IF pairs = <<>> THEN Ok(map, <<>>)
    ELSE LET k == resolve(Head(pairs)[1], ctx)
         IN IF k.tag = "Panic" THEN k
            ELSE LET key == After(k, try_into(k.val))
                 IN IF key.tag = "Panic" THEN key
                    ELSE LET value == After(key, resolve(Head(pairs)[2], ctx))
                         IN IF value.tag = "Panic" THEN value
                            ELSE After(value,
                                       ResolvePairs(Tail(pairs),
                                                    insert(map, key.val, value.val),
                                                    ctx))

\* Expression::Map
ResolveMap(e, ctx) ==
    LET map == ResolvePairs(e.pairs, <<>>, ctx)
    IN IF map.tag = "Panic" THEN map ELSE Ok(Map(map.val), map.calls)

\* Expression::Ident
ResolveIdentVariableFirst(e, ctx) ==
    IF contains_key(ctx.variables, e.name)
    THEN Ok(ctx.variables[e.name], <<>>)
    ELSE IF contains_key(ctx.functions, e.name)
    THEN Ok(Function(e.name, None), <<>>)
    ELSE Panic("unreachable: Unknown variable yo", <<>>)

ResolveIdent(e, ctx) ==
    IF contains_key(ctx.functions, e.name)
    THEN Ok(Function(e.name, None), <<>>)
    ELSE IF contains_key(ctx.variables, e.name)
    THEN Ok(ctx.variables[e.name], <<>>)
    ELSE Panic("unreachable: Unknown variable yo", <<>>)

\* Member::Index
MemberIndex(self, m, ctx) ==
    LET idx == resolve(m.e, ctx)
    IN IF idx.tag = "Panic" THEN idx
       ELSE IF self.k = "List" /\ idx.val.k = "Integer"
       THEN LET item == get(self.v, as_usize(idx.val.v))
            IN IF item = None THEN Panic("index: unwrap on None", idx.calls)
               ELSE Ok(item[1], idx.calls)
       ELSE Panic("index: not implemented", idx.calls)

\* Member::Attribute
MemberAttribute(self, m, ctx) ==
    IF contains_key(ctx.functions, m.name)
    THEN Ok(Function(m.name, Some(self)), <<>>)
    ELSE Panic("attribute: unreachable", <<>>)

\* Member::FunctionCall
MemberFunctionCallEager(self, m, ctx) ==
    IF self.k = "Function"
    THEN IF ~contains_key(ctx.functions, self.v)
         THEN Panic("call: unwrap on None", <<>>)
         ELSE LET func == ctx.functions[self.v]
              IN IF self.target = None
                 THEN IF m.args = <<>> THEN Invoke(func, None, m.args, ctx)
                      ELSE LET first_arg == resolve(m.args[1], ctx)
                           IN IF first_arg.tag = "Panic" THEN first_arg
                              ELSE After(first_arg,
                                         Invoke(func, Some(first_arg.val),
                                                m.args, ctx))
                 ELSE Invoke(func, self.target, m.args, ctx)
    ELSE Panic("unreachable: FunctionCall without CelType::Function", <<>>)

MemberFunctionCall(self, m, ctx) ==
    IF self.k = "Function"
    THEN IF ~contains_key(ctx.functions, self.v)
         THEN Panic("call: unwrap on None", <<>>)
         ELSE LET func == ctx.functions[self.v]
              IN IF self.target = None
                 THEN IF m.args = <<>> THEN Invoke(func, None, m.args, ctx)
                      ELSE LET first_arg == resolve(m.args[1], ctx)
                           IN IF first_arg.tag = "Panic" THEN first_arg
                              ELSE After(first_arg,
                                         Invoke(func, Some(first_arg.val),
                                                Tail(m.args), ctx))
                 ELSE Invoke(func, self.target, m.args, ctx)
    ELSE Panic("unreachable: FunctionCall without CelType::Function", <<>>)

\* CelType::member
member(self, m, ctx) ==
    CASE m.m = "Index" -> MemberIndex(self, m, ctx)
      [] m.m = "Fields" -> Panic("fields: not implemented", <<>>)
      [] m.m = "Attribute" -> MemberAttribute(self, m, ctx)
      [] m.m = "FunctionCall" -> MemberFunctionCall(self, m, ctx)

\* Expression::Member
ResolveMember(e, ctx) ==
    LET left == resolve(e.l, ctx)
    IN IF left.tag = "Panic" THEN left
       ELSE After(left, member(left.val, e.m, ctx))

\* CelType::resolve
resolve(e, ctx) ==
    CASE e.t = "Atom" -> Ok(e.a, <<>>)
      [] e.t = "Arithmetic" -> ResolveArithmetic(e, ctx)
      [] e.t = "Relation" -> ResolveRelation(e, ctx)
      [] e.t = "Ternary" -> ResolveTernary(e, ctx)
      [] e.t = "Or" -> ResolveOr(e, ctx)
      [] e.t = "And" -> ResolveAnd(e, ctx)
      [] e.t = "Unary" -> ResolveUnary(e, ctx)
      [] e.t = "Member" -> ResolveMember(e, ctx)
      [] e.t = "List" -> ResolveList(e, ctx)
      [] e.t = "Map" -> ResolveMap(e, ctx)
      [] e.t = "Ident" -> ResolveIdent(e, ctx)

\* ------------------------------------------------------- generated programs

\* Names the expressions mention.
Names == {"a", "size", "TestFunction"}

\* "a" and "World" as byte sequences.
StrA == <<97>>
StrWorld == <<87, 111, 114, 108, 100>>

\* The variables the host binds and the callables it registers: size is
\* bound as a variable and as a function, and to either callable.
Bindings == {<<"a", Integer(1)>>, <<"a", String(StrWorld)>>, <<"size", Integer(1)>>}
Registrations ==
    {<<"size", "size">>, <<"size", "TestFunction">>, <<"TestFunction", "TestFunction">>}

\* Sequences over S of length at most n.
SeqsUpTo(S, n) == UNION {[1 .. k -> S] : k \in 0 .. n}

IntLits == {Atom(Integer(i)) : i \in -1 .. MaxInt}
DecLits == {Atom(Decimal(d)) : d \in {0, 10}}
Atoms ==
    IntLits \cup DecLits
    \cup {Atom(String(<<>>)), Atom(String(StrA)), Atom(Bytes(<<>>)), Atom(Bytes(<<1>>)),
          Atom(Bool(TRUE)), Atom(Bool(FALSE)), Atom(Null)}
Idents == {Ident(n) : n \in Names}

\* List literals and map literals; the map pairs repeat a key with a
\* different value and include a key that is not admissible.
ListLits == {ListExpr(xs) : xs \in SeqsUpTo({Atom(Integer(1)), Atom(String(StrA))}, MaxLen)}
MapPairs ==
    {<<Atom(Integer(1)), Atom(Integer(1))>>, <<Atom(Integer(1)), Atom(Integer(0))>>,
     <<Atom(String(StrA)), Atom(Integer(1))>>, <<Atom(Null), Atom(Integer(1))>>}
MapLits == {MapExpr(ps) : ps \in SeqsUpTo(MapPairs, MaxLen)}

\* x.f(args) and f(args) as the parser shapes them.
MethodCall(x, f, args) == Member(Member(x, Attribute(f)), FunctionCall(args))
FreeCall(f, args) == Member(Ident(f), FunctionCall(args))

\* A call of TestFunction with a receiver it accepts.
HelloCall == MethodCall(Atom(String(StrWorld)), "TestFunction", <<>>)

\* An index that is out of range.
BadIndex == Member(ListExpr(<<>>), Index(Atom(Integer(0))))

\* Left operands of the logical forms: values of every kind, truthy and
\* falsy, identifiers, calls and a failing expression.
Operands ==
    Atoms \cup Idents
    \cup {ListExpr(<<>>), ListExpr(<<Atom(Integer(0))>>), MapExpr(<<>>),
          MapExpr(<<<<Atom(Integer(1)), Atom(Integer(0))>>>>),
          HelloCall, FreeCall("size", <<Atom(String(<<>>))>>), BadIndex}

\* Right operands and branches: a truthy and a falsy value, an identifier,
\* calls and a failing expression.
Rights == {Atom(Integer(1)), Atom(Bool(FALSE)), Ident("a"), HelloCall,
           FreeCall("size", <<>>), BadIndex}

Conds == {Atom(Integer(0)), Atom(Integer(1)), Atom(Null), Ident("a"), Ident("size"),
          HelloCall, FreeCall("size", <<Atom(String(<<>>))>>)}
Branches == {Atom(Integer(1)), Ident("a"), HelloCall, BadIndex}

RelationOps == {"LessThan", "LessThanEq", "GreaterThan", "GreaterThanEq",
                "Equals", "NotEquals", "In"}
Numbers == IntLits \cup DecLits
MapOperands ==
    {MapExpr(<<>>), MapExpr(<<<<Atom(Integer(1)), Atom(Integer(1))>>>>),
     MapExpr(<<<<Atom(Integer(1)), Atom(Integer(0))>>>>),
     MapExpr(<<<<Atom(String(StrA)), Atom(Integer(1))>>,
               <<Atom(Integer(1)), Atom(Integer(1))>>,
               <<Atom(Integer(1)), Atom(Integer(0))>>>>)}
OtherOperands ==
    {Atom(Integer(1)), Atom(Decimal(10)), Atom(String(StrA)), Atom(Null),
     ListExpr(<<Atom(Integer(1))>>), Ident("size")}
RelationPairs ==
    (Numbers \X Numbers)
    \cup (MapOperands \X (MapOperands \cup OtherOperands))
    \cup (OtherOperands \X (MapOperands \cup OtherOperands))

ArithOperands ==
    {Atom(Integer(1)), Atom(Integer(MaxInt + 1)), Atom(Decimal(15)), Atom(String(StrA)),
     Atom(Null), ListExpr(<<Atom(Integer(1))>>)}

\* Receivers and extra arguments of the size calls.
SizeReceivers ==
    ListLits \cup MapOperands
    \cup {Atom(String(<<>>)), Atom(String(StrWorld)), Atom(Bytes(<<1, 2>>)),
          Atom(Integer(1)), Ident("a"), HelloCall}
ExtraArgs == {<<>>, <<Ident("a")>>, <<HelloCall>>}

Programs ==
    Operands \cup ListLits \cup MapLits
    \cup {Or(l, r) : l \in Operands, r \in Rights}
    \cup {And(l, r) : l \in Operands, r \in Rights}
    \cup {Ternary(c, l, r) : c \in Conds, l \in Branches, r \in Branches}
    \cup {Relation(lr[1], o, lr[2]) : lr \in RelationPairs, o \in RelationOps}
    \cup {Arithmetic(l, o, r) : l \in ArithOperands, o \in {"Add", "Subtract"},
                                 r \in ArithOperands}
    \cup {Unary(o, e) : o \in {"Not", "DoubleNot", "Minus", "DoubleMinus"}, e \in Atoms}
    \cup {Member(l, Index(i)) : l \in ListLits \cup {MapExpr(<<>>)},
                                i \in IntLits \cup {Atom(Integer(MaxLen)), Atom(String(StrA))}}
    \cup {Member(Atom(Integer(1)), Fields)}
    \cup {Member(Atom(Integer(1)), Attribute(n)) : n \in Names}
    \cup {MethodCall(x, "size", args) : x \in SizeReceivers, args \in ExtraArgs}
    \cup {FreeCall("size", <<x>> \o args) : x \in SizeReceivers, args \in ExtraArgs}
    \cup {Member(Atom(Integer(1)), FunctionCall(<<>>))}

\* ------------------------------------------------------------ state machine

\* No program has been executed, or its result has been dropped.
NoExpr == [t |-> "None"]
NoResult == [tag |-> "None", val |-> "none"]

\* The context the next evaluation reads.
Ctx == Context(variables, functions)

\* Context::default()
Init ==
    /\ variables = <<>>
    /\ functions = <<>>
    /\ expr = NoExpr
    /\ result = NoResult
    /\ calls = <<>>

\* Context::add_variable(name, value)
add_variable(name, value) ==
    /\ expr = NoExpr
    /\ variables' = insert(variables, name, value)
    /\ UNCHANGED <<functions, expr, result, calls>>

\* Context::add_function(name, callable)
add_function(name, f) ==
    /\ expr = NoExpr
    /\ functions' = insert(functions, name, f)
    /\ UNCHANGED <<variables, expr, result, calls>>

\* Program::execute(&ctx): the top-level evaluation of the program's
\* expression. A panic ends the run: nothing follows it.
execute(e) ==
    /\ expr = NoExpr
    /\ LET r == resolve(e, Ctx)
       IN /\ expr' = e
          /\ result' = [tag |-> r.tag, val |-> r.val]
          /\ calls' = r.calls
    /\ UNCHANGED <<variables, functions>>

\* The caller drops the value execute returned and goes on (b.iter).
drop_result ==
    /\ expr # NoExpr
    /\ result.tag = "Ok"
    /\ expr' = NoExpr
    /\ result' = NoResult
    /\ calls' = <<>>
    /\ UNCHANGED <<variables, functions>>

AddVariable == \E b \in Bindings : add_variable(b[1], b[2])
AddFunction == \E r \in Registrations : add_function(r[1], r[2])
Execute == \E e \in Programs : execute(e)

Next == AddVariable \/ AddFunction \/ Execute \/ drop_result

Spec == Init /\ [][Next]_vars

\* ------------------------------------------------------------------- claims

\* The value or panic of an outcome, without its invocation log.
Res(o) == [tag |-> o.tag, val |-> o.val]
OkVal(v) == [tag |-> "Ok", val |-> v]

\* C1: when E1 is truthy, Or(E1, E2) yields the value of E1 itself and E2 is
\* not evaluated (none of its callables is invoked, none of its failures
\* occurs); when E1 is falsy, the result is that of E2.
C1_OrShortCircuit ==
    expr.t = "Or" =>
        LET e1 == resolve(expr.l, Ctx)
            e2 == resolve(expr.r, Ctx)
        IN /\ (e1.tag = "Ok" /\ to_bool(e1.val)) =>
                  (result = Res(e1) /\ calls = e1.calls)
           /\ (e1.tag = "Ok" /\ ~to_bool(e1.val)) =>
                  (result = Res(e2) /\ calls = e1.calls \o e2.calls)

\* An Or whose truthy left operand is not a Bool and whose right operand
\* would panic was executed and returned the left value.
C1_Witness ==
    /\ expr.t = "Or"
    /\ resolve(expr.l, Ctx).tag = "Ok"
    /\ to_bool(resolve(expr.l, Ctx).val)
    /\ resolve(expr.l, Ctx).val.k # "Bool"
    /\ resolve(expr.r, Ctx).tag = "Panic"
    /\ result = OkVal(resolve(expr.l, Ctx).val)

\* C2: Ternary(c, t, e) evaluates c once and then only the chosen branch:
\* the invocations are those of c followed by those of the chosen branch, and
\* the result is the chosen branch's, whatever the other branch would do.
C2_TernaryChosenBranchOnly ==
    expr.t = "Ternary" =>
        LET c == resolve(expr.c, Ctx)
            chosen == resolve(IF to_bool(c.val) THEN expr.l ELSE expr.r, Ctx)
        IN c.tag = "Ok" => (result = Res(chosen) /\ calls = c.calls \o chosen.calls)

\* A Ternary whose condition invokes a callable and whose untaken branch
\* invokes another was executed: only the condition's invocation is logged.
C2_Witness ==
    /\ expr.t = "Ternary"
    /\ resolve(expr.c, Ctx).tag = "Ok"
    /\ Len(resolve(expr.c, Ctx).calls) = 1
    /\ LET untaken == resolve(IF to_bool(resolve(expr.c, Ctx).val)
                              THEN expr.r ELSE expr.l, Ctx)
       IN /\ untaken.calls # <<>>
          /\ \A i \in 1 .. Len(calls) : calls[i].fn # untaken.calls[1].fn
    /\ result.tag = "Ok"
    /\ Len(calls) = 1

\* C3: And(a, b) evaluates a and then b whatever a's truthiness: b's
\* invocations are logged and b's panic surfaces, and otherwise the result is
\* Bool(truthy(a) and truthy(b)).
C3_AndEvaluatesBoth ==
    expr.t = "And" =>
        LET a == resolve(expr.l, Ctx)
            b == resolve(expr.r, Ctx)
        IN a.tag = "Ok" =>
               /\ calls = a.calls \o b.calls
               /\ b.tag = "Panic" => result = Res(b)
               /\ b.tag = "Ok" => result = OkVal(Bool(to_bool(a.val) /\ to_bool(b.val)))

\* An And with a falsy left operand was executed and its right operand's
\* callable was invoked all the same.
C3_Witness ==
    /\ expr.t = "And"
    /\ resolve(expr.l, Ctx).tag = "Ok"
    /\ ~to_bool(resolve(expr.l, Ctx).val)
    /\ resolve(expr.r, Ctx).calls # <<>>
    /\ calls = resolve(expr.r, Ctx).calls
    /\ result = OkVal(Bool(FALSE))

\* The two shapes of a size call, their receiver expression and the
\* arguments that reach the callable.
IsMethodSize(e) ==
    /\ e.t = "Member"
    /\ e.m.m = "FunctionCall"
    /\ e.l.t = "Member"
    /\ e.l.m.m = "Attribute"
    /\ e.l.m.name = "size"
IsFreeSize(e) ==
    /\ e.t = "Member"
    /\ e.m.m = "FunctionCall"
    /\ e.l = Ident("size")
    /\ e.m.args # <<>>
SizeReceiver(e) == IF IsMethodSize(e) THEN e.l.l ELSE e.m.args[1]
SizeArgs(e) == IF IsMethodSize(e) THEN e.m.args ELSE Tail(e.m.args)
OtherSizeForm(e) ==
    IF IsMethodSize(e) THEN FreeCall("size", <<e.l.l>> \o e.m.args)
    ELSE MethodCall(e.m.args[1], "size", Tail(e.m.args))
Length(x) == IF x.k = "Map" THEN Cardinality(DOMAIN x.v) ELSE Len(x.v)

\* C4: with size registered to the builtin, x.size(..) and size(x, ..) yield
\* the same Integer, the length of x's value, for x a List, Map, String or
\* Bytes: x is evaluated once and passed as the receiver, and the other
\* arguments reach the callable unevaluated.
C4_SizeEquivalence ==
    ((IsMethodSize(expr) \/ IsFreeSize(expr))
        /\ contains_key(functions, "size") /\ functions["size"] = "size") =>
        LET x == resolve(SizeReceiver(expr), Ctx)
            other == resolve(OtherSizeForm(expr), Ctx)
        IN (x.tag = "Ok" /\ x.val.k \in {"List", "Map", "String", "Bytes"}) =>
               /\ result = OkVal(Integer(Length(x.val)))
               /\ calls = x.calls \o <<Invocation("size", Some(x.val), SizeArgs(expr))>>
               /\ result = Res(other)
               /\ calls = other.calls

\* The free form size(x, y) was executed on a non-empty Map x, with an
\* argument y that invokes a callable when evaluated.
C4_Witness ==
    /\ IsFreeSize(expr)
    /\ Len(expr.m.args) = 2
    /\ resolve(expr.m.args[2], Ctx).calls # <<>>
    /\ contains_key(functions, "size") /\ functions["size"] = "size"
    /\ resolve(expr.m.args[1], Ctx).tag = "Ok"
    /\ resolve(expr.m.args[1], Ctx).val.k = "Map"
    /\ result.tag = "Ok"
    /\ result.val.v > 0
    /\ Len(calls) = 1

\* C5: the value a top-level evaluation returns is never a Function.
C5_NoFunctionResult == result.tag = "Ok" => result.val.k # "Function"

\* Integer against Decimal with the integer promoted to a decimal.
PromotedCmp(a, b) ==
    IntCmp(IF a.k = "Integer" THEN DecimalFrom(a.v) ELSE a.v,
           IF b.k = "Integer" THEN DecimalFrom(b.v) ELSE b.v)
PromotedRelation(op, a, b) ==
    CASE op = "LessThan" -> PromotedCmp(a, b) = "Less"
      [] op = "LessThanEq" -> PromotedCmp(a, b) \in {"Less", "Equal"}
      [] op = "GreaterThan" -> PromotedCmp(a, b) = "Greater"
      [] op = "GreaterThanEq" -> PromotedCmp(a, b) \in {"Greater", "Equal"}
      [] op = "Equals" -> PromotedCmp(a, b) = "Equal"
      [] op = "NotEquals" -> PromotedCmp(a, b) # "Equal"

\* C6: each of ==, !=, <, <=, >, >= on an Integer and a Decimal, in either
\* order, yields the Bool of the numeric comparison after promoting the
\* integer to a decimal.
C6_IntegerDecimalPromotion ==
    (/\ expr.t = "Relation"
     /\ expr.op # "In"
     /\ expr.l.t = "Atom"
     /\ expr.r.t = "Atom"
     /\ {expr.l.a.k, expr.r.a.k} = {"Integer", "Decimal"}) =>
        result = OkVal(Bool(PromotedRelation(expr.op, expr.l.a, expr.r.a)))

\* C7: indexing a list with an integer yields the element when the index is
\* in range, and otherwise returns the error IndexOutOfRange to the caller.
C7_IndexOutOfRangeError ==
    (/\ expr.t = "Member"
     /\ expr.m.m = "Index"
     /\ resolve(expr.l, Ctx).tag = "Ok"
     /\ resolve(expr.l, Ctx).val.k = "List"
     /\ resolve(expr.m.e, Ctx).tag = "Ok"
     /\ resolve(expr.m.e, Ctx).val.k = "Integer") =>
        LET xs == resolve(expr.l, Ctx).val.v
            k == resolve(expr.m.e, Ctx).val.v
        IN IF 0 <= k /\ k < Len(xs) THEN result = OkVal(xs[k + 1])
           ELSE result = [tag |-> "Err", val |-> "IndexOutOfRange"]

\* The keys and values a map literal's pairs evaluate to.
PairKey(e, i) == resolve(e.pairs[i][1], Ctx)
PairValue(e, i) == resolve(e.pairs[i][2], Ctx)
AdmissiblePairs(e) ==
    \A i \in 1 .. Len(e.pairs) :
        /\ PairKey(e, i).tag = "Ok"
        /\ PairKey(e, i).val.k \in {"Integer", "Bool", "String"}
        /\ PairValue(e, i).tag = "Ok"

\* C8: a map literal with admissible keys yields a map with one entry per
\* distinct key, holding the value of the last pair with that key; its size
\* is the number of distinct keys.
C8_MapLiteralLastWins ==
    (expr.t = "Map" /\ AdmissiblePairs(expr)) =>
        LET n == Len(expr.pairs)
            keys == {PairKey(expr, i).val : i \in 1 .. n}
        IN /\ result.tag = "Ok"
           /\ result.val.k = "Map"
           /\ DOMAIN result.val.v = keys
           /\ \A i \in 1 .. n :
                  (\A j \in (i + 1) .. n : PairKey(expr, j).val # PairKey(expr, i).val)
                      => result.val.v[PairKey(expr, i).val] = PairValue(expr, i).val
           /\ size(Some(result.val), <<>>, Ctx).val = Integer(Cardinality(keys))

\* A map literal that repeats a key with a different value was executed.
C8_Witness ==
    /\ expr.t = "Map"
    /\ AdmissiblePairs(expr)
    /\ \E i, j \in 1 .. Len(expr.pairs) :
           /\ i < j
           /\ PairKey(expr, i).val = PairKey(expr, j).val
           /\ PairValue(expr, i).val # PairValue(expr, j).val
    /\ result.tag = "Ok"

\* C9: with a Map operand, <, <=, > and >= fail with TypeMismatch and yield
\* no Bool; == on two maps holds exactly when they have the same keys and an
\* equal value per key.
C9_MapOrderTypeMismatch ==
    (/\ expr.t = "Relation"
     /\ resolve(expr.l, Ctx).tag = "Ok"
     /\ resolve(expr.r, Ctx).tag = "Ok"
     /\ "Map" \in {resolve(expr.l, Ctx).val.k, resolve(expr.r, Ctx).val.k}) =>
        LET l == resolve(expr.l, Ctx).val
            r == resolve(expr.r, Ctx).val
            same == /\ DOMAIN l.v = DOMAIN r.v
                    /\ \A key \in DOMAIN l.v : CelTypeEq(l.v[key], r.v[key])
        IN /\ expr.op \in {"LessThan", "LessThanEq", "GreaterThan", "GreaterThanEq"}
                  => result = [tag |-> "Err", val |-> "TypeMismatch"]
           /\ (expr.op = "Equals" /\ l.k = "Map" /\ r.k = "Map")
                  => result = OkVal(Bool(same))
           /\ (expr.op = "NotEquals" /\ l.k = "Map" /\ r.k = "Map")
                  => result = OkVal(Bool(~same))

====
